---- MODULE Spec2Model ----
(***************************************************************************)
(* A model of the chord conversion pipeline of choco:                      *)
(*   - converters/converter_instances.py: parse_jams, parse_jams_dataset   *)
(*   - parsers.py: ChoCoTune._get_measures, ChoCoTune.parse_ireal_url      *)
(*   - parsers/m21_parser.py: process_score, process_romantext             *)
(* Each program has its own variables and its own specification; the       *)
(* variables of the other programs stay at their idle values.              *)
(***************************************************************************)
EXTENDS Integers, Sequences, FiniteSets, TLC

VARIABLES
    \* ---- parse_jams_dataset / parse_jams
    replace,         \* the replace argument of the batch
    entries,         \* len(os.listdir(jams_path))
    pc,              \* "loop" | "done" | "TypeError" | "OSError"
    nDone,           \* directory entries the for loop has consumed
    metadata,        \* the aggregate dict of parse_jams_dataset
    observed,        \* history: how often each pair was counted by any parse_jams call
    loaded,          \* original_jams.annotations as loaded by the last parse_jams call
    original_annotations, \* the same list when that call ended
    jam,             \* jam.annotations built by the last parse_jams call
    chord_metadata,  \* chord_metadata built by the last parse_jams call
    saveFailed,      \* number of files whose save raised SchemaError (each one logged)
    nSaved,          \* number of converted files written
    table,           \* conversion_meta.csv: NoTable until written
    \* ---- ChoCoTune.parse_ireal_url
    url,             \* the url argument
    urlPc,           \* "call" | "loop" | "done" | "RuntimeError"
    songs,           \* the segments of the url
    songIdx,         \* position of the for loop in songs
    tunes,           \* the list that is returned
    warnings,        \* the segments logged by logger.warn
    \* ---- ChoCoTune._get_measures
    chord_string,    \* the chord string that reaches re.split
    measPc,          \* "call" | "done"
    measures,        \* the list that is returned
    \* ---- process_score / process_romantext
    call,            \* the call being made: the function and its arguments
    outcome,         \* "none" | "returned" | the exception raised
    returned         \* what the call returned

jamsVars == <<replace, entries, pc, nDone, metadata, observed, loaded,
              original_annotations, jam, chord_metadata, saveFailed, nSaved, table>>

urlVars == <<url, urlPc, songs, songIdx, tunes, warnings>>
measVars == <<chord_string, measPc, measures>>
scoreVars == <<call, outcome, returned>>

vars == <<jamsVars, urlVars, measVars, scoreVars>>

(***************************************************************************)
(* Bounds of the model.                                                    *)
(***************************************************************************)
MaxFiles == 2
MaxAnn == 2
MaxPieces == 5
MaxLen == 6
MaxMeasures == 2
MaxChords == 2
MaxNumerals == 2

(***************************************************************************)
(* Helpers on sequences.                                                   *)
(***************************************************************************)
SeqsUpTo(S, n) == UNION {[1..k -> S] : k \in 0..n}

RECURSIVE Flatten(_)
Flatten(ss) == IF ss = <<>> THEN <<>> ELSE Head(ss) \o Flatten(Tail(ss))

(***************************************************************************)
(* JAMS data: an observation is (time, duration, value, confidence); an    *)
(* annotation is a namespace and its observations, ordered by time.        *)
(***************************************************************************)
Obs(t, d, v, c) == [time |-> t, duration |-> d, value |-> v, confidence |-> c]

CHORD_NAMESPACES == {"chord", "chord_harte", "chord_roman"}

UNKNOWN == "X"

\* ChordConverter.convert_chords: the canonical string of a chord token; a
\* malformed token yields the reserved unknown string.
convert_chords(value) ==
    CASE value = "C" -> "C:maj"
      [] value = "G7" -> "G:7"
      [] value = "Cmaj" -> "C:maj"
      [] OTHER -> UNKNOWN

\* value.replace('-', ':').replace('maj', 'major').replace('min', 'minor')
convert_key(value) ==
    CASE value = "C-maj" -> "C:major"
      [] value = "A-min" -> "A:minor"
      [] value = "C:major" -> "C:majoror"
      [] OTHER -> value

\* The annotations the input files are made of.
ChordAnnA == [namespace |-> "chord",
              data |-> <<Obs(0, 2, "C", 1), Obs(2, 2, "G7", 1)>>]
ChordAnnB == [namespace |-> "chord",
              data |-> <<Obs(0, 1, "C", 1), Obs(1, 1, "H#", 0), Obs(2, 2, "C", 1)>>]
KeyAnn == [namespace |-> "key_mode",
           data |-> <<Obs(0, 4, "C-maj", 1), Obs(4, 4, "none", 1)>>]
BeatAnn == [namespace |-> "beat", data |-> <<Obs(0, 1, "1", 1)>>]

Catalogue == {ChordAnnA, ChordAnnB, KeyAnn, BeatAnn}

\* The annotation lists jams.load can return.
JamsFiles == SeqsUpTo(Catalogue, MaxAnn)

ChordValues == {"C", "G7", "H#"}

(***************************************************************************)
(* parse_jams                                                              *)
(***************************************************************************)
EmptyDict == [p \in {} |-> 0]

\* chord_metadata[pair] += 1 on a defaultdict(int)
Increment(m, p) ==
    IF p \in DOMAIN m THEN [m EXCEPT ![p] = @ + 1] ELSE m @@ (p :> 1)

\* jams.Annotation.append: the observations of an annotation are kept ordered
\* by time, a new one going after those of the same time.
RECURSIVE AnnotationAppend(_, _)
AnnotationAppend(data, o) ==
    IF data = <<>> THEN <<o>>
    ELSE IF Head(data).time <= o.time
         THEN <<Head(data)>> \o AnnotationAppend(Tail(data), o)
         ELSE <<o>> \o data

\* Mutant of ConvertObservations: the duration argument is given the time.
RECURSIVE ConvertObservationsDurationFromTime(_, _)
ConvertObservationsDurationFromTime(data, converted) ==
    IF data = <<>> THEN converted
    ELSE LET observation == Head(data)
             converted_value == convert_chords(observation.value)
         IN ConvertObservationsDurationFromTime(Tail(data),
                AnnotationAppend(converted,
                    Obs(observation.time, observation.time, converted_value,
                        observation.confidence)))

\* The inner loop over the observations of a chord annotation: the converted
\* annotation's observations.
RECURSIVE ConvertObservations(_, _)
ConvertObservations(data, converted) ==
    IF data = <<>> THEN converted
    ELSE LET observation == Head(data)
             converted_value == convert_chords(observation.value)
         IN ConvertObservations(Tail(data),
                AnnotationAppend(converted,
                    Obs(observation.time, observation.duration, converted_value,
                        observation.confidence)))

\* Mutant of CountObservations: the loop ends at the first token that converts
\* to the unknown string.
RECURSIVE CountObservationsUntilUnknown(_, _)
CountObservationsUntilUnknown(data, m) ==
    IF data = <<>> THEN m
    ELSE LET observation == Head(data)
             converted_value == convert_chords(observation.value)
         IN IF converted_value = UNKNOWN THEN m
            ELSE CountObservationsUntilUnknown(Tail(data),
                    Increment(m, <<observation.value, converted_value>>))

\* The same loop's effect on chord_metadata.
RECURSIVE CountObservations(_, _)
CountObservations(data, m) ==
    IF data = <<>> THEN m
    ELSE LET observation == Head(data)
             converted_value == convert_chords(observation.value)
         IN CountObservations(Tail(data),
                Increment(m, <<observation.value, converted_value>>))

\* The loop over the observations of a key_mode annotation.
RECURSIVE ConvertKeyObservations(_, _)
ConvertKeyObservations(data, converted) ==
    IF data = <<>> THEN converted
    ELSE LET key_observation == Head(data)
         IN ConvertKeyObservations(Tail(data),
                AnnotationAppend(converted,
                    Obs(key_observation.time, key_observation.duration,
                        convert_key(key_observation.value),
                        key_observation.confidence)))

\* An annotation of the output container: origin and src stand for the identity
\* of the Python object (the original annotation itself, or the new one that
\* was built from the original at index src).
Converted(i, ns, data) ==
    [origin |-> "converted", src |-> i, namespace |-> ns, data |-> data]
Original(i, a) ==
    [origin |-> "original", src |-> i, namespace |-> a.namespace, data |-> a.data]

\* The loop over original_annotations: all_annotations.
RECURSIVE AllAnnotations(_, _)
AllAnnotations(anns, i) ==
    IF i > Len(anns) THEN <<>>
    ELSE LET annotation == anns[i]
         IN (IF annotation.namespace \in CHORD_NAMESPACES
             THEN <<Converted(i, "chord_harte",
                              ConvertObservations(annotation.data, <<>>))>>
             ELSE IF annotation.namespace = "key_mode"
             THEN <<Converted(i, "key_mode",
                              ConvertKeyObservations(annotation.data, <<>>))>>
             ELSE <<>>)
            \o AllAnnotations(anns, i + 1)

\* The same loop's chord_metadata.
RECURSIVE ChordMetadata(_, _)
ChordMetadata(anns, m) ==
    IF anns = <<>> THEN m
    ELSE ChordMetadata(Tail(anns),
            IF Head(anns).namespace \in CHORD_NAMESPACES
            THEN CountObservations(Head(anns).data, m)
            ELSE m)

\* Mutant of KeptOriginals: every original is kept, the key annotations too.
RECURSIVE KeptOriginalsWithKeys(_, _)
KeptOriginalsWithKeys(anns, i) ==
    IF i > Len(anns) THEN <<>>
    ELSE <<Original(i, anns[i])>> \o KeptOriginalsWithKeys(anns, i + 1)

\* if replace is False: the originals that are kept in the output container.
RECURSIVE KeptOriginals(_, _)
KeptOriginals(anns, i) ==
    IF i > Len(anns) THEN <<>>
    ELSE (IF anns[i].namespace # "key_mode" THEN <<Original(i, anns[i])>> ELSE <<>>)
         \o KeptOriginals(anns, i + 1)

\* jam.annotations when parse_jams reaches jam.save
JamAnnotations(anns, rep) ==
    (IF rep = FALSE THEN KeptOriginals(anns, 1) ELSE <<>>) \o AllAnnotations(anns, 1)

\* parse_jams up to the save: what it has built from the loaded annotations.
parse_jams(anns, rep) ==
    [annotations |-> JamAnnotations(anns, rep),
     chord_metadata |-> ChordMetadata(anns, EmptyDict)]

(***************************************************************************)
(* parse_jams_dataset                                                      *)
(***************************************************************************)
NoTable == <<"no table">>

\* metadata.update(file_metadata)
DictUpdate(m, f) ==
    [p \in DOMAIN m \cup DOMAIN f |-> IF p \in DOMAIN f THEN f[p] ELSE m[p]]

\* History: the counts of one more parse_jams call added to those seen so far.
AddCounts(h, f) ==
    [p \in DOMAIN h \cup DOMAIN f |->
        (IF p \in DOMAIN h THEN h[p] ELSE 0) + (IF p \in DOMAIN f THEN f[p] ELSE 0)]

\* metadata_list as a data frame sorted by occurrences: rows
\* <<original_chord, converted_chord, occurrences>>.
RECURSIVE SortedRows(_)
SortedRows(m) ==
    IF DOMAIN m = {} THEN <<>>
    ELSE LET p == CHOOSE q \in DOMAIN m : \A r \in DOMAIN m : m[q] <= m[r]
         IN <<<<p[1], p[2], m[p]>>>> \o SortedRows([q \in DOMAIN m \ {p} |-> m[q]])

JamsIdle ==
    /\ replace = FALSE
    /\ entries = 0
    /\ pc = "idle"
    /\ nDone = 0
    /\ metadata = EmptyDict
    /\ observed = EmptyDict
    /\ loaded = <<>>
    /\ original_annotations = <<>>
    /\ jam = <<>>
    /\ chord_metadata = EmptyDict
    /\ saveFailed = 0
    /\ nSaved = 0
    /\ table = NoTable

UrlIdle ==
    /\ url = <<>>
    /\ urlPc = "idle"
    /\ songs = <<>>
    /\ songIdx = 0
    /\ tunes = <<>>
    /\ warnings = <<>>

MeasIdle ==
    /\ chord_string = <<>>
    /\ measPc = "idle"
    /\ measures = <<>>

ScoreIdle ==
    /\ call = <<>>
    /\ outcome = "idle"
    /\ returned = <<>>

JamsInit ==
    /\ UrlIdle /\ MeasIdle /\ ScoreIdle
    /\ replace \in BOOLEAN
    /\ entries \in 0..MaxFiles
    /\ pc = "loop"
    /\ nDone = 0
    /\ metadata = EmptyDict
    /\ observed = EmptyDict
    /\ loaded = <<>>
    /\ original_annotations = <<>>
    /\ jam = <<>>
    /\ chord_metadata = EmptyDict
    /\ saveFailed = 0
    /\ nSaved = 0
    /\ table = NoTable

\* One parse_jams call of the loop, up to jam.save.
Converting(anns) ==
    /\ pc = "loop"
    /\ nDone < entries
    /\ nDone' = nDone + 1
    /\ loaded' = anns
    /\ original_annotations' = anns
    /\ jam' = parse_jams(anns, replace).annotations
    /\ chord_metadata' = parse_jams(anns, replace).chord_metadata
    /\ observed' = AddCounts(observed, chord_metadata')
    /\ UNCHANGED <<replace, entries, table>>
    /\ UNCHANGED <<urlVars, measVars, scoreVars>>

\* A loop iteration whose file is saved: parse_jams returns chord_metadata.
ParseJamsSaved ==
    \E anns \in JamsFiles :
        /\ Converting(anns)
        /\ nSaved' = nSaved + 1
        /\ metadata' = DictUpdate(metadata, chord_metadata')
        /\ UNCHANGED <<pc, saveFailed>>

\* jam.save raises SchemaError: parse_jams logs it and returns None, and
\* metadata.update(None) raises TypeError in parse_jams_dataset.
ParseJamsSchemaError ==
    \E anns \in JamsFiles :
        /\ Converting(anns)
        /\ saveFailed' = saveFailed + 1
        /\ pc' = "TypeError"
        /\ UNCHANGED <<metadata, nSaved>>

\* jam.save raises OSError (the output directory cannot be written): nothing
\* catches it.
ParseJamsIOError ==
    \E anns \in JamsFiles :
        /\ Converting(anns)
        /\ pc' = "OSError"
        /\ UNCHANGED <<metadata, nSaved, saveFailed>>

\* os.path.isfile is false for the entry.
SkipEntry ==
    /\ pc = "loop"
    /\ nDone < entries
    /\ nDone' = nDone + 1
    /\ UNCHANGED <<replace, entries, pc, metadata, observed, loaded,
                   original_annotations, jam, chord_metadata, saveFailed, nSaved, table>>
    /\ UNCHANGED <<urlVars, measVars, scoreVars>>

\* After the loop: the data frame is built, sorted and written.
Finalise ==
    /\ pc = "loop"
    /\ nDone = entries
    /\ table' = SortedRows(metadata)
    /\ pc' = "done"
    /\ UNCHANGED <<replace, entries, nDone, metadata, observed, loaded,
                   original_annotations, jam, chord_metadata, saveFailed, nSaved>>
    /\ UNCHANGED <<urlVars, measVars, scoreVars>>

JamsNext ==
    \/ ParseJamsSaved
    \/ ParseJamsSchemaError
    \/ ParseJamsIOError
    \/ SkipEntry
    \/ Finalise

SpecJams == JamsInit /\ [][JamsNext]_vars

(***************************************************************************)
(* Claims about parse_jams and parse_jams_dataset (under SpecJams).        *)
(***************************************************************************)
IsChord(a) == a.namespace \in CHORD_NAMESPACES
IsKey(a) == a.namespace = "key_mode"

\* The positions of the output container that hold the original annotation i
\* itself, and those that hold the annotation converted from it.
OriginalsOf(i) == {k \in 1..Len(jam) : jam[k].origin = "original" /\ jam[k].src = i}
ConvertedOf(i) == {k \in 1..Len(jam) : jam[k].origin = "converted" /\ jam[k].src = i}

\* How often the chord annotations of the loaded file hold the value v.
Occurrences(v) ==
    Cardinality({ij \in (1..Len(loaded)) \X (1..3) :
                    /\ IsChord(loaded[ij[1]])
                    /\ ij[2] <= Len(loaded[ij[1]].data)
                    /\ loaded[ij[1]].data[ij[2]].value = v})

\* C1 (as claimed): when the batch finishes, every pair counted k times in
\* total by the parse_jams calls of the batch has the count k in the aggregate
\* mapping and in the table built from it.
C1_AggregateCountIsTotal ==
    pc = "done" =>
        \A p \in DOMAIN observed :
            /\ p \in DOMAIN metadata
            /\ metadata[p] = observed[p]
            /\ \E r \in 1..Len(table) : table[r] = <<p[1], p[2], observed[p]>>

\* C2 (as claimed): once the save of a file has failed with a schema error
\* (and been logged), the batch is still running or has finished, and a
\* finished batch has written the table.
C2_SchemaErrorDoesNotStopBatch ==
    saveFailed > 0 =>
        /\ pc \in {"loop", "done"}
        /\ (pc = "done" => table # NoTable)

\* C8 (as claimed): when a fatal I/O error has ended the batch, the table has
\* been written with the metadata of the files completed before the error.
C8_TableWrittenAfterIOError ==
    pc = "OSError" => table = SortedRows(metadata)

\* C3 (as claimed): with replace the output container holds no original chord
\* or key annotation, only converted ones; without replace every original
\* chord annotation and every original key annotation is in the output
\* container together with its converted counterpart.
C3_MergePolicy ==
    /\ replace =>
          /\ \A k \in 1..Len(jam) : jam[k].origin = "converted"
          /\ \A i \in 1..Len(loaded) :
                (IsChord(loaded[i]) \/ IsKey(loaded[i])) => OriginalsOf(i) = {}
    /\ ~replace =>
          \A i \in 1..Len(loaded) :
              (IsChord(loaded[i]) \/ IsKey(loaded[i])) =>
                  /\ OriginalsOf(i) # {}
                  /\ ConvertedOf(i) # {}

\* C3 (amended): with replace the output container holds only converted
\* annotations, one for each original chord or key annotation; without replace
\* it holds in addition every original annotation whose namespace is not
\* key_mode (the chord annotations among them), unchanged; an original key
\* annotation is in the output container in neither case, only its converted
\* counterpart is.
C3_MergePolicyAmended ==
    /\ \A i \in 1..Len(loaded) :
          /\ Cardinality(ConvertedOf(i)) =
                (IF IsChord(loaded[i]) \/ IsKey(loaded[i]) THEN 1 ELSE 0)
          /\ Cardinality(OriginalsOf(i)) =
                (IF ~replace /\ ~IsKey(loaded[i]) THEN 1 ELSE 0)
          /\ \A k \in OriginalsOf(i) :
                jam[k].namespace = loaded[i].namespace /\ jam[k].data = loaded[i].data
    /\ \A k \in 1..Len(jam) : jam[k].src \in 1..Len(loaded)
    /\ replace => \A k \in 1..Len(jam) : jam[k].origin = "converted"

\* C3 witness: a file with a chord and a key annotation was merged without
\* replace.
C3_Witness ==
    /\ ~replace
    /\ \E i, j \in 1..Len(loaded) : IsChord(loaded[i]) /\ IsKey(loaded[j])
    /\ Len(jam) = 3

\* C4: for every chord annotation of the loaded file there is one converted
\* annotation; it has as many observations as the original, and its i-th
\* observation has the time, duration and confidence of the original's i-th
\* observation; the original annotations are what was loaded.
C4_ObservationsPreserved ==
    /\ original_annotations = loaded
    /\ \A i \in 1..Len(loaded) :
          IsChord(loaded[i]) =>
              /\ ConvertedOf(i) # {}
              /\ \A k \in ConvertedOf(i) :
                    LET o == loaded[i].data
                        c == jam[k].data
                    IN /\ Len(c) = Len(o)
                       /\ \A j \in 1..Len(o) :
                             /\ c[j].time = o[j].time
                             /\ c[j].duration = o[j].duration
                             /\ c[j].confidence = o[j].confidence
                             /\ DOMAIN c[j] = DOMAIN o[j]

\* C4 witness: a chord annotation of three observations with different times,
\* durations and confidences was converted, and its values changed.
C4_Witness ==
    \E i \in 1..Len(loaded) :
        /\ loaded[i] = ChordAnnB
        /\ \E k \in ConvertedOf(i) :
              \A j \in 1..3 : jam[k].data[j].value # loaded[i].data[j].value

SCHEME == "irealb://"
QUOTE == "\""

UrlPieces == {<<"a">>, <<"!">>, <<"=">>, <<"=", "=", "=">>, <<QUOTE>>, <<"%22">>}

\* The urls parse_ireal_url is called with: with the scheme marker at the
\* start, without it, and with it after another character.
UrlBodies == {Flatten(ps) : ps \in SeqsUpTo(UrlPieces, MaxPieces)}
Urls == {pre \o b : pre \in {<<SCHEME>>, <<>>, <<"a", SCHEME>>}, b \in UrlBodies}

\* urllib.parse.unquote
unquote(u) == [i \in 1..Len(u) |-> IF u[i] = "%22" THEN QUOTE ELSE u[i]]

\* The longest prefix of s without a double quote: ([^"]+), when not empty.
RECURSIVE UpToQuote(_)
UpToQuote(s) ==
    IF s = <<>> \/ Head(s) = QUOTE THEN <<>>
    ELSE <<Head(s)>> \o UpToQuote(Tail(s))

\* re.match(r'irealb://([^"]+)', url): whether it matches, and its group 1.
Matches(u) == Len(u) >= 2 /\ u[1] = SCHEME /\ u[2] # QUOTE
Group1(u) == UpToQuote(Tail(u))

\* re.split("===", s): the pieces between the leftmost non-overlapping
\* occurrences of the separator; cur is the piece being read.
RECURSIVE SplitSongs(_, _)
SplitSongs(s, cur) ==
    IF s = <<>> THEN <<cur>>
    ELSE IF Len(s) >= 3 /\ s[1] = "=" /\ s[2] = "=" /\ s[3] = "="
         THEN <<cur>> \o SplitSongs(SubSeq(s, 4, Len(s)), <<>>)
         ELSE SplitSongs(Tail(s), Append(cur, Head(s)))

\* ChoCoTune(song): whether the constructor returns (or raises), and the tune.
TuneParses(song) == \A i \in 1..Len(song) : song[i] # "!"
ChoCoTune(song) == [tune_string |-> song]

UrlInit ==
    /\ JamsIdle /\ MeasIdle /\ ScoreIdle
    /\ url \in Urls
    /\ urlPc = "call"
    /\ songs = <<>>
    /\ songIdx = 0
    /\ tunes = <<>>
    /\ warnings = <<>>

\* The url does not match: RuntimeError.
UrlRejected ==
    /\ urlPc = "call"
    /\ ~Matches(unquote(url))
    /\ urlPc' = "RuntimeError"
    /\ UNCHANGED <<url, songs, songIdx, tunes, warnings>>
    /\ UNCHANGED <<jamsVars, measVars, scoreVars>>

\* The url matches: it is split into songs.
UrlSplit ==
    /\ urlPc = "call"
    /\ Matches(unquote(url))
    /\ songs' = SplitSongs(Group1(unquote(url)), <<>>)
    /\ songIdx' = 1
    /\ urlPc' = "loop"
    /\ UNCHANGED <<url, tunes, warnings>>
    /\ UNCHANGED <<jamsVars, measVars, scoreVars>>

\* if song != '' is false.
SongEmpty ==
    /\ urlPc = "loop"
    /\ songIdx <= Len(songs)
    /\ songs[songIdx] = <<>>
    /\ songIdx' = songIdx + 1
    /\ UNCHANGED <<url, urlPc, songs, tunes, warnings>>
    /\ UNCHANGED <<jamsVars, measVars, scoreVars>>

\* The tune is built and appended.
SongParsed ==
    /\ urlPc = "loop"
    /\ songIdx <= Len(songs)
    /\ songs[songIdx] # <<>>
    /\ TuneParses(songs[songIdx])
    /\ tunes' = Append(tunes, ChoCoTune(songs[songIdx]))
    /\ songIdx' = songIdx + 1
    /\ UNCHANGED <<url, urlPc, songs, warnings>>
    /\ UNCHANGED <<jamsVars, measVars, scoreVars>>

\* Mutant of SongFailed: the exception ends the loop.
SongFailedEndsLoop ==
    /\ urlPc = "loop"
    /\ songIdx <= Len(songs)
    /\ songs[songIdx] # <<>>
    /\ ~TuneParses(songs[songIdx])
    /\ warnings' = Append(warnings, songs[songIdx])
    /\ songIdx' = Len(songs) + 1
    /\ UNCHANGED <<url, urlPc, songs, tunes>>
    /\ UNCHANGED <<jamsVars, measVars, scoreVars>>

\* The constructor raises: the song is logged and the loop goes on.
SongFailed ==
    /\ urlPc = "loop"
    /\ songIdx <= Len(songs)
    /\ songs[songIdx] # <<>>
    /\ ~TuneParses(songs[songIdx])
    /\ warnings' = Append(warnings, songs[songIdx])
    /\ songIdx' = songIdx + 1
    /\ UNCHANGED <<url, urlPc, songs, tunes>>
    /\ UNCHANGED <<jamsVars, measVars, scoreVars>>

\* return tunes
UrlReturn ==
    /\ urlPc = "loop"
    /\ songIdx > Len(songs)
    /\ urlPc' = "done"
    /\ UNCHANGED <<url, songs, songIdx, tunes, warnings>>
    /\ UNCHANGED <<jamsVars, measVars, scoreVars>>

UrlNext ==
    \/ UrlRejected
    \/ UrlSplit
    \/ SongEmpty
    \/ SongParsed
    \/ SongFailed
    \/ UrlReturn

SpecUrl == UrlInit /\ [][UrlNext]_vars

(***************************************************************************)
(* Claims about parse_ireal_url (under SpecUrl).                           *)
(***************************************************************************)
\* The symbols of a url after its first scheme marker.
RECURSIVE AfterScheme(_)
AfterScheme(u) ==
    IF u = <<>> THEN <<>>
    ELSE IF Head(u) = SCHEME THEN Tail(u) ELSE AfterScheme(Tail(u))

HasScheme(u) == \E i \in 1..Len(u) : u[i] = SCHEME

\* One tune for each non-empty segment that parses, in the order of the segments.
TunesOfSegments(segments) ==
    LET good(song) == song # <<>> /\ TuneParses(song)
        kept == SelectSeq(segments, good)
    IN [i \in 1..Len(kept) |-> ChoCoTune(kept[i])]

\* The non-empty segments that do not parse, in the order of the segments.
FailedSegments(segments) ==
    LET bad(song) == song # <<>> /\ ~TuneParses(song)
    IN SelectSeq(segments, bad)

\* C6 (as claimed): for a url with the scheme marker, the returned list holds
\* one tune for each non-empty segment between the triple separators of the url
\* that parses, in order, and the segments that fail are logged and skipped.
C6_OneTunePerSegment ==
    (urlPc = "done" /\ HasScheme(url)) =>
        LET segments == SplitSongs(AfterScheme(unquote(url)), <<>>)
        IN /\ tunes = TunesOfSegments(segments)
           /\ warnings = FailedSegments(segments)

\* C6 (amended): for a url that starts with the scheme marker followed by a
\* character other than a double quote, the returned list holds one tune for
\* each non-empty segment, between triple separators, of the part of the
\* decoded url that lies between the scheme marker and the first double quote
\* (or the end), in order; a segment that fails is logged and skipped, and
\* nothing else is logged.  Any other url raises RuntimeError.
C6_OneTunePerSegmentBeforeQuote ==
    /\ urlPc = "done" =>
          LET decoded == unquote(url)
              segments == SplitSongs(UpToQuote(Tail(decoded)), <<>>)
          IN /\ decoded[1] = SCHEME
             /\ tunes = TunesOfSegments(segments)
             /\ warnings = FailedSegments(segments)
    /\ urlPc = "RuntimeError" =>
          \/ Len(url) < 2
          \/ url[1] # SCHEME
          \/ url[2] \in {QUOTE, "%22"}

\* C6 witness: a url of three segments, the second malformed, has returned the
\* tunes of the first and the third and logged the second.
C6_Witness ==
    /\ urlPc = "done"
    /\ url = <<SCHEME, "a", "=", "=", "=", "!", "=", "=", "=", "a">>
    /\ tunes = <<ChoCoTune(<<"a">>), ChoCoTune(<<"a">>)>>
    /\ warnings = <<<<"!">>>>

(***************************************************************************)
(* ChoCoTune._get_measures.  chord_string is the string that reaches       *)
(* re.split, a sequence of characters: a chord ("C"), a blank, and the     *)
(* bar-line markers "|", "LZ", "Z" and "[".  It holds no repeat shorthand, *)
(* so that _fill_single_double_repeats and _fill_slashes have nothing to   *)
(* expand in the measures.                                                 *)
(***************************************************************************)
MeasureChars == {"C", " ", "|", "L", "Z", "["}

\* The one-character alternatives of the pattern \||LZ|K|Z|{|}|\[|\]
SingleMarkers == {"|", "K", "Z", "{", "}", "[", "]"}

\* re.split(r'\||LZ|K|Z|{|}|\[|\]', s); cur is the piece being read.
RECURSIVE SplitMeasures(_, _)
SplitMeasures(s, cur) ==
    IF s = <<>> THEN <<cur>>
    ELSE IF Head(s) = "|"
         THEN <<cur>> \o SplitMeasures(Tail(s), <<>>)
    ELSE IF Len(s) >= 2 /\ s[1] = "L" /\ s[2] = "Z"
         THEN <<cur>> \o SplitMeasures(SubSeq(s, 3, Len(s)), <<>>)
    ELSE IF Head(s) \in SingleMarkers
         THEN <<cur>> \o SplitMeasures(Tail(s), <<>>)
    ELSE SplitMeasures(Tail(s), Append(cur, Head(s)))

\* str.strip()
RECURSIVE LStrip(_)
LStrip(m) == IF m # <<>> /\ Head(m) = " " THEN LStrip(Tail(m)) ELSE m

RECURSIVE RStrip(_)
RStrip(m) ==
    IF m # <<>> /\ m[Len(m)] = " " THEN RStrip(SubSeq(m, 1, Len(m) - 1)) ELSE m

Strip(m) == RStrip(LStrip(m))

\* Mutant of StrippedMeasures: the pieces are compared with '' before they
\* are stripped.
StrippedMeasuresUnstrippedTest(pieces) ==
    LET nonempty(m) == m # <<>>
        kept == SelectSeq(pieces, nonempty)
    IN [i \in 1..Len(kept) |-> Strip(kept[i])]

\* [m.strip() for m in measures if m.strip() != '']
StrippedMeasures(pieces) ==
    LET nonempty(m) == Strip(m) # <<>>
        kept == SelectSeq(pieces, nonempty)
    IN [i \in 1..Len(kept) |-> Strip(kept[i])]

MeasInit ==
    /\ JamsIdle /\ UrlIdle /\ ScoreIdle
    /\ chord_string \in SeqsUpTo(MeasureChars, MaxLen)
    /\ measPc = "call"
    /\ measures = <<>>

\* _get_measures, from the split to the return.
GetMeasures ==
    /\ measPc = "call"
    /\ measures' = StrippedMeasures(SplitMeasures(chord_string, <<>>))
    /\ measPc' = "done"
    /\ UNCHANGED chord_string
    /\ UNCHANGED <<jamsVars, urlVars, scoreVars>>

MeasNext == GetMeasures

SpecMeasures == MeasInit /\ [][MeasNext]_vars

(***************************************************************************)
(* Claims about _get_measures (under SpecMeasures).                        *)
(***************************************************************************)
\* The positions where a bar-line marker ends: every marker ends with one of
\* the one-character markers ("LZ" with its "Z").
MarkerEnds(s) == {i \in 1..Len(s) : s[i] \in SingleMarkers}

\* N: the number of bar-line markers of s.
MarkerCount(s) == Cardinality(MarkerEnds(s))

\* The characters of s that belong to a marker.
InMarker(s, i) ==
    \/ s[i] \in SingleMarkers
    \/ (s[i] = "L" /\ i < Len(s) /\ s[i + 1] = "Z")

\* The stretches of s between two consecutive markers, or between a marker and
\* an end of s: each is given by the boundaries a < b around it, where 0 and
\* Len(s)+1 stand for the ends.
Stretches(s) ==
    LET bounds == MarkerEnds(s) \cup {0, Len(s) + 1}
    IN {ab \in bounds \X bounds :
            /\ ab[1] < ab[2]
            /\ \A c \in bounds : ~(ab[1] < c /\ c < ab[2])}

\* A stretch is blank when it holds nothing but blanks beside the markers.
BlankStretch(s, ab) ==
    \A i \in (ab[1] + 1)..(ab[2] - 1) : InMarker(s, i) \/ s[i] = " "

BlankStretches(s) == Cardinality({ab \in Stretches(s) : BlankStretch(s, ab)})

IsMeasure(m) ==
    /\ m # <<>>
    /\ m[1] # " "
    /\ m[Len(m)] # " "
    /\ \A i \in 1..Len(m) : m[i] \notin SingleMarkers

\* The markers of s that are neither leading nor trailing: those with
\* something other than blanks and markers on both sides.
Content(s, i) == ~InMarker(s, i) /\ s[i] # " "
InnerMarkerEnds(s) ==
    {i \in MarkerEnds(s) :
        /\ \E j \in 1..(i - 1) : Content(s, j)
        /\ \E j \in (i + 1)..Len(s) : Content(s, j)}

\* C7 (as claimed): a tune string with N bar-line markers and no repeat
\* shorthand yields exactly N+1 measures, none of them empty; leading and
\* trailing markers add no measure and are not counted in N.
C7_MeasureCount ==
    (measPc = "done" /\ \E i \in 1..Len(chord_string) : Content(chord_string, i)) =>
        /\ Len(measures) = Cardinality(InnerMarkerEnds(chord_string)) + 1
        /\ \A k \in 1..Len(measures) : measures[k] # <<>>

\* C7 (amended): a string with N bar-line markers and no repeat shorthand
\* yields one measure, stripped and not empty, for each stretch between
\* markers (or a marker and an end of the string) that is not blank: N+1 less
\* the number of blank stretches, hence at most N+1, and exactly N+1 only when
\* no marker is leading, trailing or next to another marker.
C7_MeasureCountLessBlank ==
    measPc = "done" =>
        /\ Len(measures) =
              MarkerCount(chord_string) + 1 - BlankStretches(chord_string)
        /\ Len(measures) <= MarkerCount(chord_string) + 1
        /\ \A k \in 1..Len(measures) : IsMeasure(measures[k])

\* C7 witness: a string of three markers, two of them next to each other, has
\* yielded three measures.
C7_Witness ==
    /\ measPc = "done"
    /\ chord_string = <<"C", "|", "C", "Z", "[">> \o <<"C">>
    /\ measures = <<<<"C">>, <<"C">>, <<"C">>>>

(***************************************************************************)
(* process_score and process_romantext.  A Python value in a returned      *)
(* list is a string (a sequence of pieces, so that concatenation is \o)    *)
(* or a number.                                                            *)
(***************************************************************************)
Str(text) == [type |-> "str", v |-> text]
Num(n) == [type |-> "num", v |-> n]

\* The chords a measure can hold: chord symbols at the offsets 0, 1 and 2,
\* and a chord of pitches at offset 0.
ScoreChords ==
    {[offset |-> o, symbol |-> TRUE, figure |-> <<"C">>, pitches |-> <<>>] : o \in 0..2}
    \cup {[offset |-> 0, symbol |-> FALSE, figure |-> <<>>, pitches |-> <<"C4", "E4">>]}

\* measure.getElementsByClass(Chord): the chords of a measure by offset.
ChordLists ==
    {cs \in SeqsUpTo(ScoreChords, MaxChords) :
        \A i \in 1..(Len(cs) - 1) : cs[i].offset < cs[i + 1].offset}

MeasureDuration == 4

\* The measures of the chord part as notated: measure k has number k.
ScoreMeasureLists ==
    {[k \in 1..n |-> [number |-> k, duration |-> MeasureDuration, chords |-> cl[k]]] :
        n \in 1..MaxMeasures, cl \in [1..MaxMeasures -> ChordLists]}

HasChord(ms) == \E k \in 1..Len(ms) : ms[k].chords # <<>>

\* The calls of process_score: a score object or a collection of scores, the
\* number of its parts that hold chords, the repeat marks of the chord part,
\* and the two flags.
ScoreCalls ==
    {[fn |-> "process_score", single |-> FALSE, chord_parts |-> 1, repeats |-> "none",
      expand |-> TRUE, rename_measures |-> TRUE, measures |-> <<>>]}
    \cup {[fn |-> "process_score", single |-> TRUE, chord_parts |-> n, repeats |-> "none",
           expand |-> e, rename_measures |-> TRUE, measures |-> <<>>] :
                n \in {0, 3}, e \in BOOLEAN}
    \cup {[fn |-> "process_score", single |-> TRUE, chord_parts |-> n, repeats |-> r,
           expand |-> e, rename_measures |-> rn, measures |-> ms] :
                n \in {1, 2}, r \in {"none", "consistent", "inconsistent"},
                e \in BOOLEAN, rn \in BOOLEAN,
                ms \in {m \in ScoreMeasureLists : HasChord(m)}}

\* Expander(chord_part).process(): a consistent repeat of the whole part is
\* written out, the measures keeping their numbers.
Expanded(ms, repeats) == IF repeats = "consistent" THEN ms \o ms ELSE ms

\* ",".join(...)
RECURSIVE Join(_)
Join(names) ==
    IF names = <<>> THEN <<>>
    ELSE IF Len(names) = 1 THEN names
    ELSE <<Head(names), ",">> \o Join(Tail(names))

\* chord_str of a chord
ChordStr(chord) == IF chord.symbol THEN Str(chord.figure) ELSE Str(Join(chord.pitches))

\* measure_no(measure): measureNumberWithSuffix() is a string, measureNumber
\* a number.
MeasureNo(measure, expanded) ==
    IF expanded THEN Str(<<ToString(measure.number)>>) ELSE Num(measure.number)

\* The row appended for a chord.
ScoreRow(chord, measure_number, measure_duration) ==
    <<ChordStr(chord), measure_number, Num(chord.offset),
      Num(measure_duration - chord.offset)>>

\* The loop over the chords of one measure.
RECURSIVE ChordLoop(_, _, _, _)
ChordLoop(chords, measure_number, measure_duration, chord_ann) ==
    IF chords = <<>> THEN chord_ann
    ELSE LET chord == Head(chords)
             appended == Append(chord_ann,
                                ScoreRow(chord, measure_number, measure_duration))
             n == Len(appended)
             updated ==
                 IF n > 1 /\ appended[n - 1][2] = measure_number
                 THEN [appended EXCEPT ![n - 1][4] = Num(chord.offset)]
                 ELSE appended
         IN ChordLoop(Tail(chords), measure_number, measure_duration, updated)

\* The loop over the measures of the chord part; i is enumerate's index.
RECURSIVE MeasureLoop(_, _, _, _, _)
MeasureLoop(ms, i, rename_measures, expanded, chord_ann) ==
    IF i >= Len(ms) THEN chord_ann
    ELSE LET measure == ms[i + 1]
             measure_number ==
                 IF rename_measures THEN Num(i) ELSE MeasureNo(measure, expanded)
         IN MeasureLoop(ms, i + 1, rename_measures, expanded,
                ChordLoop(measure.chords, measure_number, measure.duration, chord_ann))

RECURSIVE TotalDuration(_)
TotalDuration(ms) ==
    IF ms = <<>> THEN 0 ELSE Head(ms).duration + TotalDuration(Tail(ms))

\* process_score: how the call ends and, when it returns, the metadata and
\* chord_ann it returns (the time and key signature lists are not modelled,
\* nor is metadata["duration_m"]).
process_score(c) ==
    IF ~c.single THEN [outcome |-> "ValueError", returned |-> <<>>]
    ELSE IF ~(c.chord_parts <= 2) THEN [outcome |-> "AssertionError", returned |-> <<>>]
    ELSE IF c.chord_parts = 0
    THEN [outcome |-> "NoChordsInScoreException", returned |-> <<>>]
    ELSE IF ~c.expand
    \* metadata["expanded"] was never set: line 133 raises KeyError
    THEN [outcome |-> "KeyError", returned |-> <<>>]
    ELSE LET expanded == c.repeats # "inconsistent"
             chord_part == IF expanded THEN Expanded(c.measures, c.repeats)
                           ELSE c.measures
         IN [outcome |-> "returned",
             returned |->
                [metadata |-> [title |-> "title", composers |-> "composers",
                               movement |-> "movement", expanded |-> expanded,
                               duration |-> TotalDuration(chord_part)],
                 chord_ann |-> MeasureLoop(chord_part, 0, c.rename_measures,
                                           expanded, <<>>)]]

\* The Roman numerals of a RomanText analysis.
Numerals ==
    [measure : {1, 2}, beat : {1, 3}, quarterLength : {1, 2},
     key : {"C major", "B- major"}, figure : {"I", "V7"}]

RomantextCalls ==
    {[fn |-> "process_romantext", numerals |-> ns] : ns \in SeqsUpTo(Numerals, MaxNumerals)}

\* roman_numeral.key.name.replace('-', 'b')
LocalKey(name) == IF name = "B- major" THEN "Bb major" ELSE name

\* Mutant of RomanRow: the row has the layout of process_score's rows.
RomanRowChordFirst(roman_numeral) ==
    <<Str(<<LocalKey(roman_numeral.key), ":", roman_numeral.figure>>),
      Num(roman_numeral.measure), Num(roman_numeral.beat),
      Num(roman_numeral.quarterLength)>>

\* The row appended to chord_ann for a numeral.
RomanRow(roman_numeral) ==
    <<Num(roman_numeral.measure), Num(roman_numeral.beat),
      Num(roman_numeral.quarterLength),
      Str(<<LocalKey(roman_numeral.key), ":", roman_numeral.figure>>)>>

\* Mutant of NumeralLoop: the duration of the last key entry is replaced by
\* the numeral's instead of being added to.
RECURSIVE NumeralLoopDurationReplaced(_, _, _)
NumeralLoopDurationReplaced(numerals, chord_ann, key_ann) ==
    IF numerals = <<>> THEN [chord_ann |-> chord_ann, key_ann |-> key_ann]
    ELSE LET roman_numeral == Head(numerals)
             lkey == Str(<<LocalKey(roman_numeral.key)>>)
             n == Len(key_ann)
         IN NumeralLoopDurationReplaced(Tail(numerals),
                Append(chord_ann, RomanRow(roman_numeral)),
                IF n > 0 /\ key_ann[n][4] = lkey
                THEN [key_ann EXCEPT ![n][3] = Num(roman_numeral.quarterLength)]
                ELSE Append(key_ann,
                            <<Num(roman_numeral.measure), Num(roman_numeral.beat),
                              Num(roman_numeral.quarterLength), lkey>>))

\* The loop over the numerals: chord_ann and key_ann.
RECURSIVE NumeralLoop(_, _, _)
NumeralLoop(numerals, chord_ann, key_ann) ==
    IF numerals = <<>> THEN [chord_ann |-> chord_ann, key_ann |-> key_ann]
    ELSE LET roman_numeral == Head(numerals)
             lkey == Str(<<LocalKey(roman_numeral.key)>>)
             n == Len(key_ann)
         IN NumeralLoop(Tail(numerals),
                Append(chord_ann, RomanRow(roman_numeral)),
                IF n > 0 /\ key_ann[n][4] = lkey
                THEN [key_ann EXCEPT ![n][3] =
                          Num(@.v + roman_numeral.quarterLength)]
                ELSE Append(key_ann,
                            <<Num(roman_numeral.measure), Num(roman_numeral.beat),
                              Num(roman_numeral.quarterLength), lkey>>))

\* process_romantext: what it returns (its metadata is not modelled).
process_romantext(c) ==
    [outcome |-> "returned", returned |-> NumeralLoop(c.numerals, <<>>, <<>>)]

ScoreInit ==
    /\ JamsIdle /\ UrlIdle /\ MeasIdle
    /\ call \in ScoreCalls \cup RomantextCalls
    /\ outcome = "none"
    /\ returned = <<>>

ProcessScore ==
    /\ outcome = "none"
    /\ call.fn = "process_score"
    /\ outcome' = process_score(call).outcome
    /\ returned' = process_score(call).returned
    /\ UNCHANGED call
    /\ UNCHANGED <<jamsVars, urlVars, measVars>>

ProcessRomantext ==
    /\ outcome = "none"
    /\ call.fn = "process_romantext"
    /\ outcome' = process_romantext(call).outcome
    /\ returned' = process_romantext(call).returned
    /\ UNCHANGED call
    /\ UNCHANGED <<jamsVars, urlVars, measVars>>

ScoreNext ==
    \/ ProcessScore
    \/ ProcessRomantext

SpecScore == ScoreInit /\ [][ScoreNext]_vars

(***************************************************************************)
(* Claims about process_score and process_romantext (under SpecScore).     *)
(***************************************************************************)
\* The chord part process_score reads the chords from.
ChordPart ==
    IF call.repeats # "inconsistent"
    THEN Expanded(call.measures, call.repeats) ELSE call.measures

\* The number of chords in the first n measures of ms.
RECURSIVE ChordsBefore(_, _)
ChordsBefore(ms, n) ==
    IF n = 0 THEN 0 ELSE ChordsBefore(ms, n - 1) + Len(ms[n].chords)

\* Equality of two Python values, and of two rows of four.
Same(x, y) == x.type = y.type /\ x.v = y.v
SameRow(r, q) == Len(r) = 4 /\ Len(q) = 4 /\ \A f \in 1..4 : Same(r[f], q[f])

\* Every chord of the chord part has its row, in score order, with the
\* fields (chord string, measure index, offset, duration).
ScoreRowsAsClaimed ==
    LET ms == ChordPart
        rows == returned.chord_ann
    IN /\ Len(rows) = ChordsBefore(ms, Len(ms))
       /\ \A i \in 1..Len(ms) : \A j \in 1..Len(ms[i].chords) :
             LET row == rows[ChordsBefore(ms, i - 1) + j]
                 chord == ms[i].chords[j]
             IN /\ Len(row) = 4
                /\ Same(row[1], IF chord.symbol THEN Str(<<"C">>)
                                     ELSE Str(<<"C4", ",", "E4">>))
                /\ Same(row[2], IF call.rename_measures THEN Num(i - 1)
                                     ELSE IF call.repeats # "inconsistent"
                                     THEN Str(<<ToString(ms[i].number)>>)
                                     ELSE Num(ms[i].number))
                /\ Same(row[3], Num(chord.offset))
                /\ row[4].type = "num"

\* The key name as it is written in a row.
WrittenKey(numeral) == IF numeral.key = "B- major" THEN "Bb major" ELSE "C major"

\* C9 (as claimed): process_score and process_romantext both return every
\* chord observation with the fields (chord string, measure index, offset,
\* duration), in this order.
C9_RowShape ==
    outcome = "returned" =>
        IF call.fn = "process_score" THEN ScoreRowsAsClaimed
        ELSE /\ Len(returned.chord_ann) = Len(call.numerals)
             /\ \A k \in 1..Len(call.numerals) :
                   LET row == returned.chord_ann[k]
                       numeral == call.numerals[k]
                   IN /\ Len(row) = 4
                      /\ Same(row[1], Str(<<WrittenKey(numeral), ":", numeral.figure>>))
                      /\ Same(row[2], Num(numeral.measure))
                      /\ Same(row[3], Num(numeral.beat))
                      /\ Same(row[4], Num(numeral.quarterLength))

\* C9 (amended): process_score returns every chord observation with the
\* fields (chord string, measure index, offset, duration), in this order;
\* process_romantext returns every chord observation with the fields (measure
\* number, beat offset, duration, "local key:figure" string), in this order.
C9_RowShapePerFunction ==
    outcome = "returned" =>
        IF call.fn = "process_score" THEN ScoreRowsAsClaimed
        ELSE /\ Len(returned.chord_ann) = Len(call.numerals)
             /\ \A k \in 1..Len(call.numerals) :
                   LET row == returned.chord_ann[k]
                       numeral == call.numerals[k]
                   IN /\ Len(row) = 4
                      /\ Same(row[1], Num(numeral.measure))
                      /\ Same(row[2], Num(numeral.beat))
                      /\ Same(row[3], Num(numeral.quarterLength))
                      /\ Same(row[4], Str(<<WrittenKey(numeral), ":", numeral.figure>>))

\* C9 witness: process_romantext has returned the rows of two numerals.
C9_Witness ==
    /\ outcome = "returned"
    /\ call.fn = "process_romantext"
    /\ Len(call.numerals) = 2
    /\ SameRow(returned.chord_ann[1], <<Num(1), Num(1), Num(2), Str(<<"Bb major", ":", "V7">>)>>)
    /\ SameRow(returned.chord_ann[2], <<Num(2), Num(3), Num(1), Str(<<"C major", ":", "I">>)>>)

\* C10 (as claimed): every call of process_score on a single score that has
\* a chord-annotated part returns metadata that holds the expansion flag:
\* true when expansion was requested and succeeded, false otherwise.
C10_ExpansionFlag ==
    (call # <<>> /\ call.fn = "process_score" /\ call.single
        /\ call.chord_parts = 1 /\ outcome # "none") =>
        /\ outcome = "returned"
        /\ "expanded" \in DOMAIN returned.metadata
        /\ returned.metadata.expanded =
              (call.expand /\ call.repeats # "inconsistent")

\* C11 (as claimed): a call of process_score on a single score goes past the
\* part selection only when exactly one part holds chords; with no such part
\* it raises NoChordsInScoreException, and with two or more it fails the
\* assertion.
C11_SingleChordPart ==
    (call # <<>> /\ call.fn = "process_score" /\ call.single /\ outcome # "none") =>
        /\ call.chord_parts = 0 => outcome = "NoChordsInScoreException"
        /\ call.chord_parts >= 2 => outcome = "AssertionError"
        /\ outcome \notin {"NoChordsInScoreException", "AssertionError"} =>
              call.chord_parts = 1

\* C12 (as claimed): in what process_score returns for a score without
\* repeats, the duration of every chord is the distance from its offset to the
\* offset of the next chord of its measure, and the duration of the last chord
\* of a measure is the measure duration less its offset.
C12_DurationsTileMeasure ==
    (call # <<>> /\ call.fn = "process_score" /\ outcome = "returned"
        /\ call.repeats = "none") =>
        LET ms == ChordPart
            rows == returned.chord_ann
        IN /\ Len(rows) = ChordsBefore(ms, Len(ms))
           /\ \A i \in 1..Len(ms) : \A j \in 1..Len(ms[i].chords) :
                 LET row == rows[ChordsBefore(ms, i - 1) + j]
                     chords == ms[i].chords
                 IN Same(row[4],
                         IF j < Len(chords)
                         THEN Num(chords[j + 1].offset - chords[j].offset)
                         ELSE Num(ms[i].duration - chords[j].offset))

\* The runs of consecutive numerals of one local key: a run starts at the
\* first numeral and at every numeral whose key is not that of the numeral
\* before it.
RunStarts ==
    {k \in 1..Len(call.numerals) :
        k = 1 \/ WrittenKey(call.numerals[k]) # WrittenKey(call.numerals[k - 1])}

\* The start of the e-th run, and the last numeral of the run that starts at s.
RunStart(e) ==
    CHOOSE s \in RunStarts : Cardinality({t \in RunStarts : t < s}) = e - 1
RunEnd(s) ==
    CHOOSE l \in s..Len(call.numerals) :
        /\ \A k \in (s + 1)..l : k \notin RunStarts
        /\ l = Len(call.numerals) \/ (l + 1) \in RunStarts

\* The durations of the numerals a..b, and of the first n key entries, added up.
RECURSIVE NumeralDurations(_, _)
NumeralDurations(a, b) ==
    IF a > b THEN 0
    ELSE call.numerals[b].quarterLength + NumeralDurations(a, b - 1)

RECURSIVE KeyDurations(_, _)
KeyDurations(key_ann, n) ==
    IF n = 0 THEN 0 ELSE key_ann[n][3].v + KeyDurations(key_ann, n - 1)

\* C13: in the key list process_romantext returns, no two adjacent entries
\* have the same local key; there is one entry for each run of consecutive
\* numerals of one key, which starts at the measure and offset of the run's
\* first numeral and lasts the sum of the durations of the run's numerals;
\* the durations of the entries add up to the durations of the numerals.
C13_KeyRuns ==
    (call # <<>> /\ call.fn = "process_romantext" /\ outcome = "returned") =>
        LET key_ann == returned.key_ann
        IN /\ Len(key_ann) = Cardinality(RunStarts)
           /\ \A e \in 1..Len(key_ann) :
                 LET s == RunStart(e)
                 IN SameRow(key_ann[e],
                            <<Num(call.numerals[s].measure),
                              Num(call.numerals[s].beat),
                              Num(NumeralDurations(s, RunEnd(s))),
                              Str(<<WrittenKey(call.numerals[s])>>)>>)
           /\ \A e \in 1..(Len(key_ann) - 1) : key_ann[e][4].v # key_ann[e + 1][4].v
           /\ KeyDurations(key_ann, Len(key_ann)) =
                 NumeralDurations(1, Len(call.numerals))

\* C13 witness: two numerals of one key, at different measures and offsets,
\* have been merged into one key entry that lasts as long as both.
C13_Witness ==
    /\ call # <<>> /\ call.fn = "process_romantext" /\ outcome = "returned"
    /\ Len(call.numerals) = 2
    /\ call.numerals[1].key = "B- major" /\ call.numerals[2].key = "B- major"
    /\ call.numerals[1].measure = 1 /\ call.numerals[2].measure = 2
    /\ call.numerals[1].beat = 3 /\ call.numerals[2].beat = 1
    /\ Len(returned.key_ann) = 1
    /\ SameRow(returned.key_ann[1], <<Num(1), Num(3), Num(3), Str(<<"Bb major">>)>>)

====
